---- MODULE Spec2Model ----
(***************************************************************************)
(* Word ladder (src/ladders.py): neighbour precomputation over sorted-     *)
(* letter keys, the loader, breadth-first shortest path, connected         *)
(* components and the longest shortest path of a component.                *)
(*                                                                         *)
(* Characters are code points, a word is a sequence of code points, None   *)
(* word ids are -1.  A file is a record [exists, lines].                   *)
(***************************************************************************)
EXTENDS Integers, Sequences, FiniteSets

VARIABLES
    wordList,        \* WORD_LIST_FILE: the raw lines of the dictionary
    dataFile,        \* DATA_FILE: [exists, lines], a line is a sequence of decimal tokens
    outputFile,      \* OUTPUT_FILE: [exists, lines], a line is a word
    WORDS_TO_INDEX,  \* global dict word -> id
    INDEX_TO_WORD,   \* global dict id -> word
    NEIGHBORS,       \* global dict id -> set of ids
    pc,              \* position of the running program
    err,             \* the uncaught exception that ended the run, "" if none
    argv,            \* the words given on the command line, <<>> before the query
    words,           \* precompute: sorted-letter key -> set of ids
    wordKeys,        \* precompute: the keys of words in insertion (= iteration) order
    it,              \* precompute: position of the key loop in wordKeys
    length,          \* precompute / find_longest_path: len(words) / len(group)
    output_steps,    \* precompute / compute: length // 100
    progress,        \* precompute: hashes printed so far
    words_done,      \* precompute / compute: loop counter
    start,           \* compute / find_longest_path: id of the source
    goal,            \* compute: id of the goal
    stack,           \* the frontier list of compute, count_groups, find_longest_path
    done,            \* the visited set of compute, find_longest_path
    came_from,       \* compute: id -> BFS parent
    path,            \* generate_path: the id path, start first
    word,            \* the id dequeued last
    outcome,         \* what the query printed: "", "invalid", "found", "nopath", "groups", "longest"
    todo,            \* count_groups: unclaimed ids
    count,           \* count_groups: size of the group being filled
    group_counts,    \* count_groups: sizes of the finished groups
    members,         \* history: ids dequeued into the group being filled
    groups,          \* history: member sets of the finished groups
    group,           \* find_longest_path: the ids reachable from the given word
    pending,         \* find_longest_path: ids "for start in group" has yet to yield
    words_checked,   \* find_longest_path: sources started
    next_output,     \* find_longest_path: next progress print
    steps_to,        \* find_longest_path: id -> depth
    max_start,       \* find_longest_path
    max_end,         \* find_longest_path
    max_length       \* find_longest_path

fileVars    == <<wordList, dataFile, outputFile>>
globalVars  == <<WORDS_TO_INDEX, INDEX_TO_WORD, NEIGHBORS>>
preVars     == <<words, wordKeys, it, progress>>
searchVars  == <<argv, start, goal, stack, done, came_from, path, word, outcome>>
groupVars   == <<todo, count, group_counts, members, groups>>
longestVars == <<group, pending, words_checked, next_output, steps_to,
                 max_start, max_end, max_length>>
vars == <<fileVars, globalVars, pc, err, preVars, length, output_steps,
          words_done, searchVars, groupVars, longestVars>>

None == 0 - 1

(***************************************************************************)
(* Bounds of the model.                                                    *)
(***************************************************************************)
MaxCore == 2

(***************************************************************************)
(* Characters and strings.                                                 *)
(***************************************************************************)
\* string.ascii_letters: a-z then A-Z
AsciiLetters == (97..122) \cup (65..90)

\* the characters str.strip() removes: tab, LF, VT, FF, CR, space
Whitespace == {9, 10, 11, 12, 13, 32}

\* str.lower() on one character
LowerChar(c) == IF c \in 65..90 THEN c + 32 ELSE c

\* str.lower()
Lower(s) == [k \in 1..Len(s) |-> LowerChar(s[k])]

RECURSIVE LStrip(_)
LStrip(s) == IF s # <<>> /\ Head(s) \in Whitespace THEN LStrip(Tail(s)) ELSE s

RECURSIVE RStrip(_)
RStrip(s) ==
    IF s # <<>> /\ s[Len(s)] \in Whitespace
    THEN RStrip(SubSeq(s, 1, Len(s) - 1))
    ELSE s

\* str.strip()
Strip(s) == RStrip(LStrip(s))

\* line.strip().lower() of precompute and load_data
Normalize(line) == Lower(Strip(line))

\* insert c into the ascending sequence s
RECURSIVE InsertSorted(_, _)
InsertSorted(s, c) ==
    IF s = <<>> THEN <<c>>
    ELSE IF c <= Head(s) THEN <<c>> \o s
    ELSE <<Head(s)>> \o InsertSorted(Tail(s), c)

\* sort_letters: "".join(sorted(word))
RECURSIVE sort_letters(_)
sort_letters(w) ==
    IF w = <<>> THEN <<>>
    ELSE InsertSorted(sort_letters(SubSeq(w, 1, Len(w) - 1)), w[Len(w)])

\* word[:i] + word[i+1:] with i counted from 1
RemoveAt(w, i) == SubSeq(w, 1, i - 1) \o SubSeq(w, i + 1, Len(w))

\* the ids of a set in ascending order (the iteration order taken for a
\* set of small ints wherever the order cannot change the result)
RECURSIVE SetToSeq(_)
SetToSeq(S) ==
    IF S = {} THEN <<>>
    ELSE LET m == CHOOSE x \in S : \A y \in S : x <= y
         IN <<m>> \o SetToSeq(S \ {m})

Range(s) == {s[k] : k \in 1..Len(s)}

\* str(n) of a non-negative int, as its decimal digits
RECURSIVE FormatInt(_)
FormatInt(n) == IF n < 10 THEN <<n>> ELSE FormatInt(n \div 10) \o <<n % 10>>

\* int(token)
RECURSIVE ParseInt(_)
ParseInt(t) ==
    IF Len(t) = 1 THEN t[1]
    ELSE 10 * ParseInt(SubSeq(t, 1, Len(t) - 1)) + t[Len(t)]

(***************************************************************************)
(* Dictionaries the model runs on.                                         *)
(***************************************************************************)
\* the 100 of "length // 100" and "len(WORDS_TO_INDEX) // 100"
ProgressDivisor == 100

\* raw dictionary lines: "a", "ab", "ba", "a'", "A "
Vocabulary ==
    { <<97>>, <<97, 98>>, <<98, 97>>, <<97, 39>>, <<65, 32>> }

\* two-letter words "cm", "cn", ..., one per k, with pairwise distinct
\* sorted-letter keys and no key one move away from another
PadWord(k) == <<99 + (k \div 10), 109 + (k % 10)>>

\* as many lines as the progress step needs to have a non-zero period
Padding == [k \in 1..ProgressDivisor |-> PadWord(k - 1)]

\* all sequences over S of length 1..n
RECURSIVE SeqsUpTo(_, _)
SeqsUpTo(S, n) ==
    IF n = 0 THEN {}
    ELSE LET shorter == SeqsUpTo(S, n - 1)
         IN {<<x>> : x \in S} \cup shorter
              \cup {Append(q, x) : q \in shorter, x \in S}

\* word lists for the precomputation: a few chosen lines, alone or followed
\* by the padding
PreDictionaries ==
    LET cores == SeqsUpTo(Vocabulary, MaxCore)
    IN cores \cup {c \o Padding : c \in cores}

EmptyDict == [x \in {} |-> 0]
NoFile    == [exists |-> FALSE, lines |-> <<>>]
EmptyFile == [exists |-> TRUE, lines |-> <<>>]

(***************************************************************************)
(* load_data, first half: the two word maps.                               *)
(***************************************************************************)
\* INDEX_TO_WORD after the loop of load_data: line i gets id i
LoadIndexToWord(lines) == [i \in 0..(Len(lines) - 1) |-> Normalize(lines[i + 1])]

\* WORDS_TO_INDEX after the loop of load_data: a later line overwrites
LoadWordsToIndex(lines) ==
    LET norm == [k \in 1..Len(lines) |-> Normalize(lines[k])]
        last(w) == CHOOSE k \in 1..Len(lines) :
                      norm[k] = w /\ \A j \in (k + 1)..Len(lines) : norm[j] # w
    IN [w \in Range(norm) |-> last(w) - 1]

(***************************************************************************)
(* precompute.                                                             *)
(***************************************************************************)
\* words after the reading loop: key -> ids of the lines with that key
BuildWords(lines) ==
    LET key == [k \in 1..Len(lines) |-> sort_letters(Normalize(lines[k]))]
    IN [kk \in Range(key) |-> {k - 1 : k \in {j \in 1..Len(lines) : key[j] = kk}}]

\* the keys of words in the order the reading loop inserted them: by the
\* line on which each key first occurs
BuildKeyOrder(lines) ==
    LET key == [k \in 1..Len(lines) |-> sort_letters(Normalize(lines[k]))]
        firsts == {k \in 1..Len(lines) : \A j \in 1..(k - 1) : key[j] # key[k]}
        rank == [k \in firsts |-> Cardinality({j \in firsts : j <= k})]
        nth(p) == CHOOSE k \in firsts : rank[k] = p
    IN [p \in 1..Cardinality(firsts) |-> key[nth(p)]]

\* one probe: "if new in words: neighbors |= words[new]"
Probe(ws, new) == IF new \in DOMAIN ws THEN ws[new] ELSE {}

\* for c in string.ascii_letters: probe sort_letters(word + c)
InsertionNeighbors(ws, key) ==
    UNION {Probe(ws, sort_letters(Append(key, c))) : c \in AsciiLetters}

\* DeletionNeighbors with a fault: range(len(word) - 1), the last letter is never removed
DeletionNeighborsSkipLast(ws, key) ==
    UNION {Probe(ws, sort_letters(RemoveAt(key, i))) : i \in 1..(Len(key) - 1)}

\* for i in range(len(word)): probe sort_letters(word[:i] + word[i+1:])
DeletionNeighbors(ws, key) ==
    UNION {Probe(ws, sort_letters(RemoveAt(key, i))) : i \in 1..Len(key)}

\* the neighbors set built for one key
ComputeNeighbors(ws, key) == InsertionNeighbors(ws, key) \cup DeletionNeighbors(ws, key)

\* " ".join(map(str, neighbors)), as its tokens
NeighborsString(neighbors) ==
    LET q == SetToSeq(neighbors) IN [k \in 1..Len(q) |-> FormatInt(q[k])]

\* the lines written for one key: one per id of its bucket
RecordLines(ids, neighbors) ==
    LET q == SetToSeq(ids)
        ns == NeighborsString(neighbors)
    IN [k \in 1..Len(q) |->
          IF ns # <<>> THEN <<FormatInt(q[k])>> \o ns ELSE <<FormatInt(q[k])>>]

\* NEIGHBORS after the reading loop of load_data: a later line overwrites
ParseData(lines) ==
    LET id == [k \in 1..Len(lines) |-> ParseInt(lines[k][1])]
        last(i) == CHOOSE k \in 1..Len(lines) :
                      id[k] = i /\ \A j \in (k + 1)..Len(lines) : id[j] # i
        parsed(line) == {ParseInt(line[j]) : j \in 2..Len(line)}
    IN [i \in Range(id) |-> parsed(lines[last(i)])]

\* load_data, lines 100-109: read the word list, then choose between the
\* stored adjacency data and a precomputation
LoadWords ==
    /\ pc = "start"
    /\ WORDS_TO_INDEX' = LoadWordsToIndex(wordList)
    /\ INDEX_TO_WORD' = LoadIndexToWord(wordList)
    /\ pc' = IF dataFile.exists THEN "load_neighbors" ELSE "precompute"
    /\ UNCHANGED <<fileVars, NEIGHBORS, err, preVars, length, output_steps,
                   words_done, searchVars, groupVars, longestVars>>

\* precompute, lines 56-71: bucket the words by key, open the data file
PrecomputeRead ==
    /\ pc = "precompute"
    /\ words' = BuildWords(wordList)
    /\ wordKeys' = BuildKeyOrder(wordList)
    /\ length' = Cardinality(DOMAIN words')
    /\ output_steps' = Cardinality(DOMAIN words') \div ProgressDivisor
    /\ progress' = 0
    /\ words_done' = 0
    /\ it' = 1
    /\ dataFile' = EmptyFile
    /\ pc' = "pre_loop"
    /\ UNCHANGED <<wordList, outputFile, globalVars, err, searchVars,
                   groupVars, longestVars>>

\* precompute, lines 72-94: one pass of "for word in words"; the modulo by
\* output_steps raises ZeroDivisionError when there are under 100 keys
PrecomputeStep ==
    /\ pc = "pre_loop"
    /\ it <= Len(wordKeys)
    /\ IF output_steps = 0
       THEN /\ pc' = "error"
            /\ err' = "ZeroDivisionError"
            /\ UNCHANGED <<dataFile, it, progress, words_done>>
       ELSE /\ progress' = IF words_done % output_steps = 0
                           THEN (words_done * 40) \div length
                           ELSE progress
            /\ words_done' = words_done + 1
            /\ dataFile' = [dataFile EXCEPT !.lines =
                   @ \o RecordLines(words[wordKeys[it]],
                                    ComputeNeighbors(words, wordKeys[it]))]
            /\ it' = it + 1
            /\ UNCHANGED <<pc, err>>
    /\ UNCHANGED <<wordList, outputFile, globalVars, words, wordKeys, length,
                   output_steps, searchVars, groupVars, longestVars>>

\* precompute, line 95, and the return to load_data
PrecomputeDone ==
    /\ pc = "pre_loop"
    /\ it > Len(wordKeys)
    /\ pc' = "load_neighbors"
    /\ UNCHANGED <<fileVars, globalVars, err, preVars, length, output_steps,
                   words_done, searchVars, groupVars, longestVars>>

\* load_data, lines 110-114: read the adjacency records
LoadNeighbors ==
    /\ pc = "load_neighbors"
    /\ NEIGHBORS' = ParseData(dataFile.lines)
    /\ pc' = "loaded"
    /\ UNCHANGED <<fileVars, WORDS_TO_INDEX, INDEX_TO_WORD, err, preVars, length,
                   output_steps, words_done, searchVars, groupVars, longestVars>>

\* the state before main() runs, the files apart
InitProgram ==
    /\ outputFile = NoFile
    /\ WORDS_TO_INDEX = EmptyDict
    /\ INDEX_TO_WORD = EmptyDict
    /\ NEIGHBORS = EmptyDict
    /\ pc = "start"
    /\ err = ""
    /\ words = EmptyDict
    /\ wordKeys = <<>>
    /\ it = 0
    /\ length = 0
    /\ output_steps = 0
    /\ progress = 0
    /\ words_done = 0
    /\ argv = <<>>
    /\ start = None
    /\ goal = None
    /\ stack = <<>>
    /\ done = {}
    /\ came_from = EmptyDict
    /\ path = <<>>
    /\ outcome = ""
    /\ todo = {}
    /\ count = 0
    /\ group_counts = <<>>
    /\ members = {}
    /\ groups = <<>>
    /\ group = {}
    /\ pending = {}
    /\ words_checked = 0
    /\ next_output = 0
    /\ steps_to = EmptyDict
    /\ word = None
    /\ max_start = None
    /\ max_end = None
    /\ max_length = 0

\* a run of load_data with no adjacency data on disk
InitPre ==
    /\ wordList \in PreDictionaries
    /\ dataFile = NoFile
    /\ InitProgram

NextPre ==
    \/ LoadWords
    \/ PrecomputeRead
    \/ PrecomputeStep
    \/ PrecomputeDone
    \/ LoadNeighbors

SpecPre == InitPre /\ [][NextPre]_vars

(***************************************************************************)
(* Queries: the word list and the adjacency data are both on disk.         *)
(***************************************************************************)
\* the words "a", "ab", "abc", ...: word i is the first i+1 letters
QueryWord(i) == [k \in 1..(i + 1) |-> 96 + k]

\* the neighbor map over 0..n-1 with the edges E, a set of pairs <<i, j>>
GraphOf(n, E) == [i \in 0..(n - 1) |-> {j \in 0..(n - 1) : <<i, j>> \in E}]

\* every graph without self-loops in which j in g[i] goes with i in g[j]
UndirectedGraphs(n) ==
    LET pairs == {e \in (0..(n - 1)) \X (0..(n - 1)) : e[1] < e[2]}
    IN {GraphOf(n, E \cup {<<e[2], e[1]>> : e \in E}) : E \in SUBSET pairs}

\* every graph without self-loops
DirectedGraphs(n) ==
    LET pairs == {e \in (0..(n - 1)) \X (0..(n - 1)) : e[1] # e[2]}
    IN {GraphOf(n, E) : E \in SUBSET pairs}

\* the chain 0 - 1 - 2 - 3 - 4
Chain5 == GraphOf(5, {e \in (0..4) \X (0..4) : e[1] = e[2] + 1 \/ e[2] = e[1] + 1})

\* the ring 0 - 1 - 2 - 3 - 4 - 0
Cycle5 ==
    GraphOf(5, {e \in (0..4) \X (0..4) :
                   e[1] = (e[2] + 1) % 5 \/ e[2] = (e[1] + 1) % 5})

\* number of nodes of a graph
Size(g) == Cardinality(DOMAIN g)

\* the word list of a query: one word per node, then the padding if any
QueryLines(n, padded) ==
    [k \in 1..n |-> QueryWord(k - 1)] \o (IF padded THEN Padding ELSE <<>>)

\* adjacency data with one record per id of 0..total-1: the records of g,
\* then an empty record for each further id
DataLines(g, total) ==
    [k \in 1..total |->
        RecordLines({k - 1}, IF k - 1 \in DOMAIN g THEN g[k - 1] ELSE {})[1]]

\* dict[k] = v
Put(f, k, v) == [x \in DOMAIN f \cup {k} |-> IF x = k THEN v ELSE f[x]]

\* the orders in which a set can be iterated
RECURSIVE Orders(_)
Orders(S) ==
    IF S = {} THEN {<<>>}
    ELSE UNION {{<<x>> \o q : q \in Orders(S \ {x})} : x \in S}

Reverse(q) == [k \in 1..Len(q) |-> q[Len(q) + 1 - k]]

(***************************************************************************)
(* compute.                                                                *)
(***************************************************************************)
\* check_words with a fault: only the first word is looked up
check_words_first_only(ws) == ws[1] \in DOMAIN WORDS_TO_INDEX

\* check_words(*words)
check_words(ws) == \A k \in 1..Len(ws) : ws[k] \in DOMAIN WORDS_TO_INDEX

\* the while loop of generate_path: goal, came_from[goal], ..., start
RECURSIVE PathBack(_, _, _)
PathBack(cf, s, g) ==
    IF g = s THEN <<s>> ELSE <<g>> \o PathBack(cf, s, cf[g])

\* the ids of generate_path's result: reversed(path)
PathIds(cf, s, g) == Reverse(PathBack(cf, s, g))

\* generate_path: the words of the path
generate_path(cf, s, g) ==
    LET ids == PathIds(cf, s, g) IN [k \in 1..Len(ids) |-> INDEX_TO_WORD[ids[k]]]

\* StackPop with a fault: stack.pop(), the frontier is a stack and not a queue
StackPopLast(st) == [word |-> st[Len(st)], rest |-> SubSeq(st, 1, Len(st) - 1)]

\* stack.pop(0): the element taken and the list left
StackPop(st) == [word |-> Head(st), rest |-> Tail(st)]

\* the "for neighbor in NEIGHBORS[word]" loop of compute over the order q,
\* from the search state st = [stack, done, came_from, found]
RECURSIVE Expand(_, _, _, _)
Expand(q, st, w, g) ==
    IF q = <<>> THEN st
    ELSE IF Head(q) = g
    THEN [st EXCEPT !.came_from = Put(@, g, w), !.found = TRUE]
    ELSE IF Head(q) \notin st.done
    THEN Expand(Tail(q),
                [stack |-> Append(st.stack, Head(q)),
                 done |-> st.done \cup {Head(q)},
                 came_from |-> Put(st.came_from, Head(q), w),
                 found |-> FALSE],
                w, g)
    ELSE Expand(Tail(q), st, w, g)

\* compute, lines 148-158: the entry of compute(s, g)
ComputeCall(s, g) ==
    /\ pc = "loaded"
    /\ argv' = <<s, g>>
    /\ IF ~check_words(<<s, g>>)
       THEN /\ outputFile' = EmptyFile
            /\ outcome' = "invalid"
            /\ pc' = "done"
            /\ UNCHANGED <<err, start, goal, stack, done, came_from,
                           words_done, output_steps>>
       ELSE IF s \notin DOMAIN WORDS_TO_INDEX \/ g \notin DOMAIN WORDS_TO_INDEX
       THEN /\ pc' = "error"
            /\ err' = "KeyError"
            /\ UNCHANGED <<outputFile, outcome, start, goal, stack, done,
                           came_from, words_done, output_steps>>
       ELSE /\ start' = WORDS_TO_INDEX[s]
            /\ goal' = WORDS_TO_INDEX[g]
            /\ stack' = <<WORDS_TO_INDEX[s]>>
            /\ done' = {WORDS_TO_INDEX[s]}
            /\ came_from' = EmptyDict
            /\ words_done' = 0
            /\ output_steps' = Cardinality(DOMAIN WORDS_TO_INDEX) \div ProgressDivisor
            /\ pc' = "compute_loop"
            /\ UNCHANGED <<outputFile, outcome, err>>
    /\ UNCHANGED <<wordList, dataFile, globalVars, preVars, length, path, word,
                   groupVars, longestVars>>

\* compute, lines 160-174: one pass of "while stack"; the modulo by
\* output_steps raises ZeroDivisionError when there are under 100 words
ComputeIter ==
    /\ pc = "compute_loop"
    /\ stack # <<>>
    /\ word' = StackPop(stack).word
    /\ IF output_steps = 0
       THEN /\ stack' = StackPop(stack).rest
            /\ pc' = "error"
            /\ err' = "ZeroDivisionError"
            /\ UNCHANGED <<outputFile, done, came_from, path, outcome, words_done>>
       ELSE IF StackPop(stack).word \notin DOMAIN NEIGHBORS
       THEN /\ stack' = StackPop(stack).rest
            /\ words_done' = words_done + 1
            /\ pc' = "error"
            /\ err' = "KeyError"
            /\ UNCHANGED <<outputFile, done, came_from, path, outcome>>
       ELSE /\ words_done' = words_done + 1
            /\ \E q \in Orders(NEIGHBORS[StackPop(stack).word]) :
                  LET r == Expand(q, [stack |-> StackPop(stack).rest, done |-> done,
                                      came_from |-> came_from, found |-> FALSE],
                                  StackPop(stack).word, goal)
                  IN /\ stack' = r.stack
                     /\ done' = r.done
                     /\ came_from' = r.came_from
                     /\ IF r.found
                        THEN /\ path' = PathIds(r.came_from, start, goal)
                             /\ outputFile' =
                                   [exists |-> TRUE,
                                    lines |-> generate_path(r.came_from, start, goal)]
                             /\ outcome' = "found"
                             /\ pc' = "done"
                        ELSE UNCHANGED <<path, outputFile, outcome, pc>>
            /\ UNCHANGED err
    /\ UNCHANGED <<wordList, dataFile, globalVars, preVars, length, output_steps,
                   argv, start, goal, groupVars, longestVars>>

\* compute, lines 175-177: the frontier is empty
ComputeExhausted ==
    /\ pc = "compute_loop"
    /\ stack = <<>>
    /\ outcome' = "nopath"
    /\ outputFile' = EmptyFile
    /\ pc' = "done"
    /\ UNCHANGED <<wordList, dataFile, globalVars, err, preVars, length,
                   output_steps, words_done, argv, start, goal, stack, done,
                   came_from, path, word, groupVars, longestVars>>

\* bounds on the graphs a query runs on
MaxNodes == 4
MaxDirected == 3

\* the adjacency graphs of the queries
Graphs ==
    UNION {UndirectedGraphs(n) : n \in 1..MaxNodes}
      \cup UNION {DirectedGraphs(n) : n \in 1..MaxDirected}

\* the words a query is asked about; whether one is in the dictionary
\* depends on the word list.  Graphs holds every relabelling of each of its
\* graphs, so a start at id 0 and a goal at id 0 or 1 stand for every pair
\* of nodes; the goal at id 2 reaches across Chain5 and Cycle5.
StartArgs == {QueryWord(0), PadWord(0)}
GoalArgs == {QueryWord(0), QueryWord(1), QueryWord(2), PadWord(0)}

\* word list and adjacency data of g on disk, the program not yet started
InitQuery(g, padded) ==
    /\ wordList = QueryLines(Size(g), padded)
    /\ dataFile = [exists |-> TRUE,
                   lines |-> DataLines(g, Len(QueryLines(Size(g), padded)))]
    /\ InitProgram

InitCompute == \E g \in Graphs \cup {Chain5, Cycle5}, padded \in BOOLEAN : InitQuery(g, padded)

NextCompute ==
    \/ LoadWords
    \/ LoadNeighbors
    \/ \E s \in StartArgs, g \in GoalArgs : ComputeCall(s, g)
    \/ ComputeIter
    \/ ComputeExhausted

SpecCompute == InitCompute /\ [][NextCompute]_vars

(***************************************************************************)
(* count_groups.                                                           *)
(***************************************************************************)
\* the "for neighbor in NEIGHBORS[word]" loop of count_groups over the order
\* q, from st = [stack, todo]
RECURSIVE Claim(_, _)
Claim(q, st) ==
    IF q = <<>> THEN st
    ELSE IF Head(q) \in st.todo
    THEN Claim(Tail(q), [stack |-> Append(st.stack, Head(q)),
                         todo |-> st.todo \ {Head(q)}])
    ELSE Claim(Tail(q), st)

\* count_groups, lines 186-188
GroupsCall ==
    /\ pc = "loaded"
    /\ todo' = DOMAIN INDEX_TO_WORD
    /\ group_counts' = <<>>
    /\ groups' = <<>>
    /\ pc' = "groups_outer"
    /\ UNCHANGED <<fileVars, globalVars, err, preVars, length, output_steps,
                   words_done, searchVars, count, members, longestVars>>

\* count_groups, lines 189-191: todo.pop() takes any unclaimed id
GroupsSeed ==
    /\ pc = "groups_outer"
    /\ todo # {}
    /\ \E x \in todo :
          /\ stack' = <<x>>
          /\ todo' = todo \ {x}
    /\ count' = 0
    /\ members' = {}
    /\ pc' = "groups_inner"
    /\ UNCHANGED <<fileVars, globalVars, err, preVars, length, output_steps,
                   words_done, argv, start, goal, done, came_from, path, word,
                   outcome, group_counts, groups, longestVars>>

\* count_groups, lines 192-198: one pass of "while stack"
GroupsIter ==
    /\ pc = "groups_inner"
    /\ stack # <<>>
    /\ word' = StackPop(stack).word
    /\ count' = count + 1
    /\ members' = members \cup {StackPop(stack).word}
    /\ IF StackPop(stack).word \notin DOMAIN NEIGHBORS
       THEN /\ stack' = StackPop(stack).rest
            /\ pc' = "error"
            /\ err' = "KeyError"
            /\ UNCHANGED todo
       ELSE /\ \E q \in Orders(NEIGHBORS[StackPop(stack).word]) :
                  LET r == Claim(q, [stack |-> StackPop(stack).rest, todo |-> todo])
                  IN /\ stack' = r.stack
                     /\ todo' = r.todo
            /\ UNCHANGED <<pc, err>>
    /\ UNCHANGED <<fileVars, globalVars, preVars, length, output_steps,
                   words_done, argv, start, goal, done, came_from, path,
                   outcome, group_counts, groups, longestVars>>

\* count_groups, line 199
GroupsClose ==
    /\ pc = "groups_inner"
    /\ stack = <<>>
    /\ group_counts' = Append(group_counts, count)
    /\ groups' = Append(groups, members)
    /\ pc' = "groups_outer"
    /\ UNCHANGED <<fileVars, globalVars, err, preVars, length, output_steps,
                   words_done, searchVars, todo, count, members, longestVars>>

\* count_groups, lines 200-201: the total is printed, then Counter, which
\* the module never imports, raises NameError
GroupsReport ==
    /\ pc = "groups_outer"
    /\ todo = {}
    /\ outcome' = "groups"
    /\ pc' = "error"
    /\ err' = "NameError"
    /\ UNCHANGED <<fileVars, globalVars, preVars, length, output_steps,
                   words_done, argv, start, goal, stack, done, came_from, path,
                   word, groupVars, longestVars>>

InitGroups == \E g \in Graphs : InitQuery(g, FALSE)

NextGroups ==
    \/ LoadWords
    \/ LoadNeighbors
    \/ GroupsCall
    \/ GroupsSeed
    \/ GroupsIter
    \/ GroupsClose
    \/ GroupsReport

SpecGroups == InitGroups /\ [][NextGroups]_vars

(***************************************************************************)
(* find_longest_path.                                                      *)
(***************************************************************************)
\* the while loop of find_words_in_group from the list st and the set result
RECURSIVE FloodFill(_, _)
FloodFill(st, result) ==
    IF st = <<>> THEN result
    ELSE LET new == NEIGHBORS[Head(st)] \ result
         IN FloodFill(Tail(st) \o SetToSeq(new), result \cup new)

\* find_words_in_group(start_word)
find_words_in_group(s) == FloodFill(<<s>>, {s})

\* get_next_output(output)
get_next_output(output) ==
    IF output % 1000 = 0 THEN output + 1000
    ELSE IF output % 100 = 0 THEN output + 100
    ELSE output + 10

\* the "for neighbor in NEIGHBORS[word]" loop of find_longest_path over the
\* order q, from st = [stack, done, steps_to]
RECURSIVE Deepen(_, _, _)
Deepen(q, st, curr_steps) ==
    IF q = <<>> THEN st
    ELSE IF Head(q) \notin st.done
    THEN Deepen(Tail(q),
                [stack |-> Append(st.stack, Head(q)),
                 done |-> st.done \cup {Head(q)},
                 steps_to |-> Put(st.steps_to, Head(q), curr_steps + 1)],
                curr_steps)
    ELSE Deepen(Tail(q), st, curr_steps)

\* find_longest_path, lines 236-245; WORDS_TO_INDEX[start_word] raises
\* KeyError for a word that is not in the dictionary
LongestCall(w) ==
    /\ pc = "loaded"
    /\ argv' = <<w>>
    /\ max_start' = None
    /\ max_end' = None
    /\ max_length' = 0
    /\ IF w \notin DOMAIN WORDS_TO_INDEX
       THEN /\ pc' = "error"
            /\ err' = "KeyError"
            /\ UNCHANGED <<group, pending, length, words_checked, next_output>>
       ELSE /\ group' = find_words_in_group(WORDS_TO_INDEX[w])
            /\ pending' = find_words_in_group(WORDS_TO_INDEX[w])
            /\ length' = Cardinality(find_words_in_group(WORDS_TO_INDEX[w]))
            /\ words_checked' = 0
            /\ next_output' = 10
            /\ pc' = "longest_outer"
            /\ UNCHANGED err
    /\ UNCHANGED <<fileVars, globalVars, preVars, output_steps, words_done,
                   start, goal, stack, done, came_from, path, word, outcome,
                   groupVars, steps_to>>

\* find_longest_path, lines 247-257: "for start in group" yields any id it
\* has not yet yielded
LongestSource ==
    /\ pc = "longest_outer"
    /\ pending # {}
    /\ \E s \in pending :
          /\ start' = s
          /\ stack' = <<s>>
          /\ done' = {s}
          /\ steps_to' = Put(EmptyDict, s, 0)
          /\ pending' = pending \ {s}
    /\ next_output' = IF words_checked = next_output
                      THEN get_next_output(next_output)
                      ELSE next_output
    /\ words_checked' = words_checked + 1
    /\ pc' = "longest_inner"
    /\ UNCHANGED <<fileVars, globalVars, err, preVars, length, output_steps,
                   words_done, argv, goal, came_from, path, word, outcome,
                   groupVars, group, max_start, max_end, max_length>>

\* find_longest_path, lines 259-266: one pass of "while stack"
LongestIter ==
    /\ pc = "longest_inner"
    /\ stack # <<>>
    /\ word' = StackPop(stack).word
    /\ \E q \in Orders(NEIGHBORS[StackPop(stack).word]) :
          LET r == Deepen(q, [stack |-> StackPop(stack).rest, done |-> done,
                              steps_to |-> steps_to],
                          steps_to[StackPop(stack).word])
          IN /\ stack' = r.stack
             /\ done' = r.done
             /\ steps_to' = r.steps_to
    /\ UNCHANGED <<fileVars, globalVars, pc, err, preVars, length, output_steps,
                   words_done, argv, start, goal, came_from, path, outcome,
                   groupVars, group, pending, words_checked, next_output,
                   max_start, max_end, max_length>>

\* find_longest_path, lines 267-271: the depth of the id dequeued last
LongestSourceEnd ==
    /\ pc = "longest_inner"
    /\ stack = <<>>
    /\ IF steps_to[word] > max_length
       THEN /\ max_length' = steps_to[word]
            /\ max_start' = start
            /\ max_end' = word
       ELSE UNCHANGED <<max_length, max_start, max_end>>
    /\ pc' = "longest_outer"
    /\ UNCHANGED <<fileVars, globalVars, err, preVars, length, output_steps,
                   words_done, searchVars, groupVars, group, pending,
                   words_checked, next_output, steps_to>>

\* find_longest_path, line 273: INDEX_TO_WORD[max_start] raises KeyError
\* while max_start is None
LongestReport ==
    /\ pc = "longest_outer"
    /\ pending = {}
    /\ IF max_start \notin DOMAIN INDEX_TO_WORD \/ max_end \notin DOMAIN INDEX_TO_WORD
       THEN /\ pc' = "error"
            /\ err' = "KeyError"
            /\ UNCHANGED outcome
       ELSE /\ outcome' = "longest"
            /\ pc' = "done"
            /\ UNCHANGED err
    /\ UNCHANGED <<fileVars, globalVars, preVars, length, output_steps,
                   words_done, argv, start, goal, stack, done, came_from, path,
                   word, groupVars, longestVars>>

InitLongest == \E g \in Graphs \cup {Chain5} : InitQuery(g, FALSE)

NextLongest ==
    \/ LoadWords
    \/ LoadNeighbors
    \/ \E w \in StartArgs : LongestCall(w)
    \/ LongestSource
    \/ LongestIter
    \/ LongestSourceEnd
    \/ LongestReport

SpecLongest == InitLongest /\ [][NextLongest]_vars

(***************************************************************************)
(* Graph notions the properties are stated with, defined apart from the    *)
(* searches above.                                                         *)
(***************************************************************************)
Ids == DOMAIN INDEX_TO_WORD

Successors(S) == UNION {NEIGHBORS[x] : x \in S}

\* the ids at distance d + k from s for the least k with g among them, or
\* None; front is the set at distance d, seen the set at distance <= d
RECURSIVE LayerOf(_, _, _, _)
LayerOf(front, seen, g, d) ==
    IF g \in front THEN d
    ELSE IF Successors(front) \subseteq seen THEN None
    ELSE LayerOf(Successors(front) \ seen, seen \cup Successors(front), g, d + 1)

\* the least number of edges of a path from s to g, None if there is none
Dist(s, g) == LayerOf({s}, {s}, g, 0)

\* the ids reachable from s along edges
RECURSIVE Closure(_)
Closure(S) == IF Successors(S) \subseteq S THEN S ELSE Closure(S \cup Successors(S))

Reach(s) == Closure({s})

\* the ids joined to s by edges taken in either direction
RECURSIVE Weak(_)
Weak(S) ==
    LET more == Successors(S) \cup {y \in DOMAIN NEIGHBORS : NEIGHBORS[y] \cap S # {}}
    IN IF more \subseteq S THEN S ELSE Weak(S \cup more)

Component(s) == Weak({s})

\* the greatest distance from s to an id reachable from it
Ecc(s) ==
    LET ds == {Dist(s, x) : x \in Reach(s)}
    IN CHOOSE d \in ds : \A e \in ds : e <= d

RECURSIVE SumSeq(_)
SumSeq(q) == IF q = <<>> THEN 0 ELSE Head(q) + SumSeq(Tail(q))

\* the sorted-letter key of the word with id i
KeyOf(i) == sort_letters(INDEX_TO_WORD[i])

\* key k2 is key k with one ascii letter added
OneLetterAdded(k, k2) ==
    /\ Len(k2) = Len(k) + 1
    /\ \E p \in 1..Len(k2) : k2[p] \in AsciiLetters /\ RemoveAt(k2, p) = k

\* key k2 is key k with one character removed
OneCharRemoved(k, k2) == \E p \in 1..Len(k) : RemoveAt(k, p) = k2

\* both words of the query are in the dictionary
ValidQuery ==
    /\ Len(argv) = 2
    /\ argv[1] \in DOMAIN WORDS_TO_INDEX
    /\ argv[2] \in DOMAIN WORDS_TO_INDEX

\* the query has ended, by a return or by an uncaught exception
Ended == pc \in {"done", "error"}

(***************************************************************************)
(* Properties.                                                             *)
(***************************************************************************)

\* C1: whenever compute outputs a path, the path starts at start, ends at
\* goal, each step of it is an edge of NEIGHBORS, its number of edges is the
\* least number of edges of any path from start to goal, and the output file
\* holds its words.
Thm_C1_ShortestPath ==
    outcome = "found" =>
        /\ path # <<>>
        /\ path[1] = start
        /\ path[Len(path)] = goal
        /\ \A k \in 1..(Len(path) - 1) : path[k + 1] \in NEIGHBORS[path[k]]
        /\ Len(path) - 1 = Dist(start, goal)
        /\ outputFile = [exists |-> TRUE,
                         lines |-> [k \in 1..Len(path) |-> INDEX_TO_WORD[path[k]]]]

\* C1 witness: a path of two or more edges was output while other ids were
\* still queued
Wit_C1_LongPathFoundEarly ==
    outcome = "found" /\ Len(path) >= 3 /\ stack # <<>>

\* C2: compute(w, w) for a dictionary word w returns the one-word path w and
\* never "No path found" (stated for the runs that return).
CE_C2_Reflexive ==
    (pc = "done" /\ ValidQuery /\ start = goal) =>
        /\ outcome = "found"
        /\ path = <<start>>
        /\ outputFile = [exists |-> TRUE, lines |-> <<INDEX_TO_WORD[start]>>]

\* C3: once the adjacency data is computed and loaded, B is in the neighbor
\* set of A if and only if A is in the neighbor set of B.
CE_C3_Symmetric ==
    pc = "loaded" =>
        \A a \in DOMAIN NEIGHBORS : \A b \in DOMAIN NEIGHBORS :
            b \in NEIGHBORS[a] <=> a \in NEIGHBORS[b]

\* C4: the neighbor set recorded for id i is exactly the set of ids whose key
\* is the key of i with one letter added or with one character removed; it
\* holds neither i nor any id with the key of i.
Thm_C4_ExactNeighbors ==
    pc = "loaded" =>
        \A i \in Ids :
            /\ i \in DOMAIN NEIGHBORS
            /\ NEIGHBORS[i] = {j \in Ids : \/ OneLetterAdded(KeyOf(i), KeyOf(j))
                                           \/ OneCharRemoved(KeyOf(i), KeyOf(j))}
            /\ \A j \in Ids : KeyOf(j) = KeyOf(i) => j \notin NEIGHBORS[i]

\* C4 witness: a precomputation ran to its end and recorded two words as
\* neighbors of each other
Wit_C4_NeighborsRecorded ==
    /\ pc = "loaded"
    /\ words # EmptyDict
    /\ \E i \in Ids : \E j \in Ids : j \in NEIGHBORS[i] /\ i \in NEIGHBORS[j]

\* C5: when goal is not in the component of start, compute ends with
\* "No path found", reports no path and leaves the output file empty.
CE_C5_Unreachable ==
    (Ended /\ ValidQuery /\ start # None /\ goal \notin Component(start)) =>
        /\ outcome = "nopath"
        /\ path = <<>>
        /\ outputFile = EmptyFile

\* C6: when start or goal is not in WORDS_TO_INDEX, compute reports the
\* invalid word and returns with the output file written empty, before the
\* frontier, the visited set and the came-from map exist.
Thm_C6_UnknownWord ==
    (Len(argv) = 2 /\ ~ValidQuery) =>
        /\ pc = "done"
        /\ err = ""
        /\ outcome = "invalid"
        /\ outputFile = EmptyFile
        /\ start = None
        /\ goal = None
        /\ stack = <<>>
        /\ done = {}
        /\ came_from = EmptyDict
        /\ path = <<>>
        /\ word = None

\* C6 witness: compute was given a known start and an unknown goal
Wit_C6_UnknownGoal ==
    /\ Len(argv) = 2
    /\ argv[1] \in DOMAIN WORDS_TO_INDEX
    /\ argv[2] \notin DOMAIN WORDS_TO_INDEX
    /\ outcome = "invalid"

\* C7: the groups count_groups discovers are pairwise disjoint, cover every
\* id, have sizes that sum to N, and no edge leaves a group.
CE_C7_Partition ==
    outcome = "groups" =>
        /\ \A a \in 1..Len(groups) : \A b \in 1..Len(groups) :
              a # b => groups[a] \cap groups[b] = {}
        /\ UNION Range(groups) = Ids
        /\ group_counts = [k \in 1..Len(groups) |-> Cardinality(groups[k])]
        /\ SumSeq(group_counts) = Cardinality(Ids)
        /\ \A i \in Ids : \A j \in NEIGHBORS[i] :
              \E k \in 1..Len(groups) : {i, j} \subseteq groups[k]

\* C8: after each source's search the depth of the id dequeued last is the
\* eccentricity of the source; find_longest_path ends by reporting the
\* greatest eccentricity over the group with a pair of ids at that distance,
\* and on the chain of 5 words it reports 4 between the two ends.
CE_C8_LongestPath ==
    /\ (pc = "longest_inner" /\ stack = <<>>) => steps_to[word] = Ecc(start)
    /\ (Ended /\ Len(argv) = 1 /\ argv[1] \in DOMAIN WORDS_TO_INDEX) =>
          /\ outcome = "longest"
          /\ \A s \in Reach(WORDS_TO_INDEX[argv[1]]) : Ecc(s) <= max_length
          /\ max_start \in Reach(WORDS_TO_INDEX[argv[1]])
          /\ Ecc(max_start) = max_length
          /\ Dist(max_start, max_end) = max_length
          /\ NEIGHBORS = Chain5 => max_length = 4 /\ {max_start, max_end} = {0, 4}

\* C9: after load_data the two word maps are inverse to each other: every id
\* maps to a word that maps back to it, and every word to an id that maps
\* back to it.
CE_C9_Bijection ==
    pc # "start" =>
        /\ \A i \in DOMAIN INDEX_TO_WORD : WORDS_TO_INDEX[INDEX_TO_WORD[i]] = i
        /\ \A w \in DOMAIN WORDS_TO_INDEX : INDEX_TO_WORD[WORDS_TO_INDEX[w]] = w

\* C10: compute ends as the same search without the progress step ends:
\* it returns, and it finds a path exactly when the goal is a neighbor of an
\* id reachable from start.
CE_C10_ProgressNeutral ==
    (Ended /\ ValidQuery) =>
        /\ err = ""
        /\ outcome = (IF goal \in Successors(Reach(start)) THEN "found" ELSE "nopath")

====
